---------------------------- MODULE Spec2Model ----------------------------
(***************************************************************************)
(* Model of random-rs: the FastRng PCG32 generator (random-fast-rng) and   *)
(* the Random / GenerateRand typed-value layer (random-trait).             *)
(*                                                                         *)
(* Machine words are wider than the integers TLC computes with, so a uN is *)
(* a sequence of N/8 bytes, least significant byte first ("limbs").  The   *)
(* layout of a word in memory (what mem::transmute sees) depends on the    *)
(* target's byte order, which is part of the build, like the profile that  *)
(* switches overflow checks and debug assertions on.                       *)
(***************************************************************************)
EXTENDS Integers, Sequences, FiniteSets, TLC

VARIABLES
    profile,    \* "dev": overflow checks and debug assertions on; "release": off
    endian,     \* byte order of the target: "little" or "big"
    status,     \* "ok", or "panic" once the thread has panicked
    args,       \* <<seed, seq>> handed to FastRng::seed
    rng,        \* the two FastRng instances: NoRng, or [state, inc]
    ops,        \* the operations applied to instance 1, in order
    outs,       \* per instance, the value each operation returned, in order
    last,       \* the most recent FastRng operation: who, what, from which state
    off,        \* bytes the scripted byte source has handed out so far
    call,       \* the typed-value call in progress or just finished
    fl,         \* the locals of the float generation in progress
    local       \* per thread: the handles local_rng() gave it, how often its
                \* thread-local generator was initialised, whether it runs

vars ==
    <<profile, endian, status, args, rng, ops, outs, last, off, call, fl, local>>

buildVars == <<profile, endian>>

rngVars == <<args, rng, ops, outs, last>>

typedVars == <<off, call, fl>>

localVars == <<local>>

-----------------------------------------------------------------------------
(* Bounds of the model.                                                    *)

\* operations applied to one FastRng instance
MaxOps == 2
\* longest buffer handed to try_fill_bytes or fill_bytes
MaxLen == 5
\* a typed-value call starts only while the scripted source has handed out
\* fewer bytes than this
MaxOff == 5
\* words one character generation draws before the model stops following it
MaxDraws == 3
\* longest array generated
MaxN == 2

-----------------------------------------------------------------------------
(* Words as limbs.                                                         *)

Pow2 == <<1, 2, 4, 8, 16, 32, 64, 128, 256>>

\* bit t (0 = least significant) of the byte b
ByteBit(b, t) == (b \div Pow2[t + 1]) % 2

\* bit i (0 = least significant) of the word x
BitOf(x, i) == ByteBit(x[(i \div 8) + 1], i % 8)

\* limb j of the word x, and 0 beyond its most significant limb
LimbAt(x, j) == IF j >= 1 /\ j <= Len(x) THEN x[j] ELSE 0

\* the n-limb word of a small natural number
RECURSIVE Word(_, _)
Word(v, n) == IF n = 0 THEN <<>> ELSE <<v % 256>> \o Word(v \div 256, n - 1)

\* limbs j.. of x >> (8q + r): the low bits come from limb j+q, the high
\* bits from the limb above it
RECURSIVE ShrFrom(_, _, _, _)
ShrFrom(x, q, r, j) ==
    IF j > Len(x) THEN <<>>
    ELSE << (LimbAt(x, j + q) \div Pow2[r + 1])
            + (LimbAt(x, j + q + 1) % Pow2[r + 1]) * Pow2[9 - r] >>
         \o ShrFrom(x, q, r, j + 1)

\* limbs j.. of x << (8q + r), truncated to the width of x
RECURSIVE ShlFrom(_, _, _, _)
ShlFrom(x, q, r, j) ==
    IF j > Len(x) THEN <<>>
    ELSE << ((LimbAt(x, j - q) * Pow2[r + 1]) % 256)
            + (LimbAt(x, j - q - 1) \div Pow2[9 - r]) >>
         \o ShlFrom(x, q, r, j + 1)

\* x >> k and x << k for 0 <= k < 8 * Len(x): the bits shifted out are lost
Shr(x, k) == ShrFrom(x, k \div 8, k % 8, 1)

Shl(x, k) == ShlFrom(x, k \div 8, k % 8, 1)

ByteXor(a, b) ==
      ((ByteBit(a, 0) + ByteBit(b, 0)) % 2)
    + ((ByteBit(a, 1) + ByteBit(b, 1)) % 2) * 2
    + ((ByteBit(a, 2) + ByteBit(b, 2)) % 2) * 4
    + ((ByteBit(a, 3) + ByteBit(b, 3)) % 2) * 8
    + ((ByteBit(a, 4) + ByteBit(b, 4)) % 2) * 16
    + ((ByteBit(a, 5) + ByteBit(b, 5)) % 2) * 32
    + ((ByteBit(a, 6) + ByteBit(b, 6)) % 2) * 64
    + ((ByteBit(a, 7) + ByteBit(b, 7)) % 2) * 128

\* a | b = a + b - (a & b), and a ^ b = a + b - 2 * (a & b)
ByteOr(a, b) == (a + b + ByteXor(a, b)) \div 2

ByteAnd(a, b) == (a + b - ByteXor(a, b)) \div 2

RECURSIVE BitXor(_, _)
BitXor(x, y) ==
    IF x = <<>> THEN <<>>
    ELSE <<ByteXor(Head(x), Head(y))>> \o BitXor(Tail(x), Tail(y))

RECURSIVE BitOr(_, _)
BitOr(x, y) ==
    IF x = <<>> THEN <<>>
    ELSE <<ByteOr(Head(x), Head(y))>> \o BitOr(Tail(x), Tail(y))

\* `as u32` of a u64: the low four limbs
TruncU32(x) == SubSeq(x, 1, 4)

\* the value of a word known to be small
SmallInt(x) == x[1] + 256 * x[2]

RECURSIVE AddLimbs(_, _, _)
AddLimbs(x, y, c) ==
    IF x = <<>> THEN <<c>>
    ELSE LET s == Head(x) + Head(y) + c
         IN  <<s % 256>> \o AddLimbs(Tail(x), Tail(y), s \div 256)

\* x + y with the carry out as one more limb
WideAdd(x, y) == AddLimbs(x, y, 0)

AddOverflows(x, y) == WideAdd(x, y)[Len(x) + 1] # 0

\* u64::wrapping_add
WrappingAdd(x, y) == SubSeq(WideAdd(x, y), 1, Len(x))

RECURSIVE ColumnSum(_, _, _, _)
ColumnSum(x, y, k, i) ==
    IF i > k THEN 0 ELSE x[i + 1] * y[k - i + 1] + ColumnSum(x, y, k, i + 1)

RECURSIVE MulLimbs(_, _, _, _)
MulLimbs(x, y, k, c) ==
    IF k = Len(x) THEN <<>>
    ELSE LET s == c + ColumnSum(x, y, k, 0)
         IN  <<s % 256>> \o MulLimbs(x, y, k + 1, s \div 256)

\* u64::wrapping_mul
WrappingMul(x, y) == MulLimbs(x, y, 0, 0)

RECURSIVE Reverse(_)
Reverse(s) == IF s = <<>> THEN <<>> ELSE Reverse(Tail(s)) \o <<Head(s)>>

\* mem::transmute between an unsigned integer and its bytes in memory
ToNativeBytes(x) == IF endian = "little" THEN x ELSE Reverse(x)

FromNativeBytes(b) == IF endian = "little" THEN b ELSE Reverse(b)

\* what the profile switches on
OverflowChecks == profile = "dev"

DebugAssertions == profile = "dev"

-----------------------------------------------------------------------------
(* Results of calls that may panic.                                        *)

Panicked == [panic |-> TRUE]

Ok(v) == [panic |-> FALSE, val |-> v]

RECURSIVE Repeat(_, _)
Repeat(b, n) == IF n = 0 THEN <<>> ELSE <<b>> \o Repeat(b, n - 1)

Min(a, b) == IF a < b THEN a ELSE b

-----------------------------------------------------------------------------
(* The provided methods of trait Random.  Each takes what the source's     *)
(* try_fill_bytes did with the zeroed buffer it was handed:                *)
(* [res |-> "Ok", bytes |-> the buffer afterwards] or [res |-> "Err"].     *)

fill_bytes_ignoring_failure(o) ==
    Ok(IF o.res = "Err" THEN Repeat(0, 8) ELSE o.bytes)

\* Random::fill_bytes: panics when try_fill_bytes returned an error
Random_fill_bytes(o) == IF o.res = "Err" THEN Panicked ELSE Ok(o.bytes)

\* the buffer get_uN hands to fill_bytes holds this many bytes
Random_get_u8_len == 1

Random_get_u16_len == 2

Random_get_u32_len == 4

Random_get_u64_len == 8

Random_get_u8(o) ==
    LET buf == Random_fill_bytes(o)
    IN  IF buf.panic THEN Panicked ELSE Ok(<<buf.val[1]>>)

Random_get_u16(o) ==
    LET buf == Random_fill_bytes(o)
    IN  IF buf.panic THEN Panicked ELSE Ok(FromNativeBytes(buf.val))

Random_get_u32(o) ==
    LET buf == Random_fill_bytes(o)
    IN  IF buf.panic THEN Panicked ELSE Ok(FromNativeBytes(buf.val))

Random_get_u64(o) ==
    LET buf == Random_fill_bytes(o)
    IN  IF buf.panic THEN Panicked ELSE Ok(FromNativeBytes(buf.val))

\* Random::get_bool: the masked byte is compared with 1, after a debug
\* assertion that it is below 2
Random_get_bool(o) ==
    LET b == Random_get_u8(o)
    IN  IF b.panic THEN Panicked
        ELSE LET bit == ByteAnd(b.val[1], 128)
             IN  IF DebugAssertions /\ ~(bit < 2) THEN Panicked
                 ELSE Ok(bit = 1)

\* the integer types the model generates as elements, and their sizes
TypeLen(T) ==
    CASE T = "u8" -> Random_get_u8_len
      [] T = "u16" -> Random_get_u16_len
      [] T = "u32" -> Random_get_u32_len
      [] T = "u64" -> Random_get_u64_len

\* Random::gen::<T> for an unsigned integer T: T::generate is rand.get_T()
Random_gen(T, o) ==
    CASE T = "u8" -> Random_get_u8(o)
      [] T = "u16" -> Random_get_u16(o)
      [] T = "u32" -> Random_get_u32(o)
      [] T = "u64" -> Random_get_u64(o)

from_u32_up_to_max(w) == w[4] = 0 /\ w[3] <= 16

\* char::from_u32(w) is Some: w is at most 0x10FFFF and outside D800..DFFF
char_from_u32_is_some(w) ==
    /\ ~(w[4] > 0 \/ w[3] > 16)
    /\ ~(w[4] = 0 /\ w[3] = 0 /\ w[2] >= 216 /\ w[2] <= 223)

PlaceFirst(elems, v) == <<v>> \o elems

\* an array or tuple expression evaluates its elements left to right: the
\* value of the next call goes after the ones already there
PlaceNext(elems, v) == Append(elems, v)

-----------------------------------------------------------------------------
(* Floating point.  A float is [sign, kind, m, e]: kind "zero", "inf" or   *)
(* "finite", and a finite one has the value (-1)^sign * m * 2^e with m a   *)
(* positive integer in limbs.                                              *)

\* u32::leading_zeros / u64::leading_zeros
RECURSIVE ZerosFrom(_, _)
ZerosFrom(x, i) ==
    IF i < 0 \/ BitOf(x, i) = 1 THEN 0 ELSE 1 + ZerosFrom(x, i - 1)

LeadingZeros(x) == ZerosFrom(x, 8 * Len(x) - 1)

BitLen(x) == 8 * Len(x) - LeadingZeros(x)

\* some bit of x below bit i is set
RECURSIVE AnyBitBelow(_, _)
AnyBitBelow(x, i) ==
    IF i <= 0 THEN FALSE ELSE BitOf(x, i - 1) = 1 \/ AnyBitBelow(x, i - 1)

\* the float types: width of the word drawn, bits of precision, bias, the
\* exponent below which the zero-retry loop gives up
WordLen(ty) == IF ty = "f32" THEN Random_get_u32_len ELSE Random_get_u64_len

Precision(ty) == IF ty = "f32" THEN 24 ELSE 53

Bias(ty) == IF ty = "f32" THEN 127 ELSE 1023

EMin(ty) == IF ty = "f32" THEN -149 ELSE -1074

\* `x as f32` / `x as f64` of an unsigned word: the nearest value with
\* Precision(ty) significant bits, ties to even, as an integer one limb wider
IntToFloat(x, ty) ==
    LET drop == BitLen(x) - Precision(ty)
        wide == x \o <<0>>
    IN  IF drop <= 0 THEN wide
        ELSE LET kept == Shl(Shr(wide, drop), drop)
                 up == /\ BitOf(x, drop - 1) = 1
                       /\ (AnyBitBelow(x, drop - 1) \/ BitOf(x, drop) = 1)
             IN  IF up THEN WrappingAdd(kept, Shl(Word(1, Len(wide)), drop))
                 ELSE kept

\* `v as u32` / `v as u64` of a small i32: two's complement in n limbs
AsUnsigned(v, n) ==
    IF v >= 0 THEN Word(v, n) ELSE Word(v + 65536, 2) \o Repeat(255, n - 2)

\* the bit pattern exp2f / exp2 build: (bias + exp) shifted to the exponent
\* field, which is bit Precision - 1 upwards
Exp2Bits(exp, ty) ==
    Shl(AsUnsigned(Bias(ty) + exp, WordLen(ty)), Precision(ty) - 1)

\* the float with that bit pattern (its fraction bits are all zero)
FloatFromBits(bits, ty) ==
    LET sign == BitOf(bits, 8 * Len(bits) - 1)
        field == SmallInt(Shr(bits, Precision(ty) - 1)) % (2 * Bias(ty) + 2)
    IN  IF field = 0
        THEN [sign |-> sign, kind |-> "zero", m |-> <<>>, e |-> 0]
        ELSE IF field = 2 * Bias(ty) + 1
        THEN [sign |-> sign, kind |-> "inf", m |-> <<>>, e |-> 0]
        ELSE [sign |-> sign, kind |-> "finite", m |-> <<1>>,
              e |-> field - Bias(ty)]

\* exp2f(exp) / exp2(exp): the debug assertion, then the transmuted bits
Exp2(exp, ty) ==
    IF DebugAssertions /\ ~(exp > -Bias(ty)) THEN Panicked
    ELSE Ok(FloatFromBits(Exp2Bits(exp, ty), ty))

\* v * scale for a positive integer v that the type represents exactly and
\* a scale that is zero, infinite or a power of two of the normal range
FloatMul(v, scale, ty) ==
    IF scale.kind # "finite" THEN scale
    ELSE IF BitLen(v) - 1 + scale.e > Bias(ty)
    THEN [sign |-> scale.sign, kind |-> "inf", m |-> <<>>, e |-> 0]
    ELSE [sign |-> scale.sign, kind |-> "finite", m |-> v, e |-> scale.e]

\* the word rule a float generation draws with
FloatWord(ty, o) == IF ty = "f32" THEN Random_get_u32(o) ELSE Random_get_u64(o)

IsZeroWord(x) == x = Repeat(0, Len(x))

\* the locals when the zero-retry loop is first reached
FloatEnter(ty, w) ==
    [exponent |-> -(8 * WordLen(ty)), significand |-> w, shift |-> 0]

\* one turn of `while significand == 0`, up to the draw: the exponent after
\* it, or the abort
ZeroRetry(ty, exponent) ==
    LET lower == exponent - 8 * WordLen(ty)
    IN  IF lower < EMin(ty) THEN Panicked ELSE Ok(lower)

normalize_without_refill(l, w) ==
    LET shift == LeadingZeros(l.significand)
    IN  [exponent |-> l.exponent - shift,
         significand |-> Shl(l.significand, shift),
         shift |-> shift]

\* the normalization: the locals after it, given the word w drawn when the
\* shift is not zero
Normalize(l, w) ==
    LET shift == LeadingZeros(l.significand)
        width == 8 * Len(l.significand)
    IN  IF shift # 0
        THEN [exponent |-> l.exponent - shift,
              significand |-> BitOr(Shl(l.significand, shift),
                                    Shr(w, width - shift)),
              shift |-> shift]
        ELSE [l EXCEPT !.shift = 0]

without_sticky(x) == x

\* the sticky bit
Sticky(x) == BitOr(x, Word(1, Len(x)))

\* significand as fN * exp2(exponent)
Scale(ty, significand, exponent) ==
    LET scale == Exp2(exponent, ty)
    IN  IF scale.panic THEN Panicked
        ELSE Ok(FloatMul(IntToFloat(significand, ty), scale.val, ty))

-----------------------------------------------------------------------------
(* FastRng (Pcg32).                                                        *)

PCG_DEFAULT_MULTIPLIER_64 == <<45, 127, 149, 76, 45, 244, 81, 88>>

NoRng == [none |-> TRUE]

\* state * MULT + inc, wrapping
LcgStep(state, inc) ==
    WrappingAdd(WrappingMul(state, PCG_DEFAULT_MULTIPLIER_64), inc)

\* FastRng::seed: the sum seed + init_inc is a plain `+`
FastRng_seed(seed, seq) ==
    LET init_inc == BitOr(Shl(seq, 1), Word(1, 8))
    IN  IF OverflowChecks /\ AddOverflows(seed, init_inc)
        THEN Panicked
        ELSE LET init_state == WrappingAdd(seed, init_inc)
             IN  Ok([state |-> LcgStep(init_state, init_inc), inc |-> init_inc])

permute_rotating_left(old_state) ==
    LET xorshift == TruncU32(Shr(BitXor(Shr(old_state, 18), old_state), 27))
        rot == SmallInt(TruncU32(Shr(old_state, 59)))
    IN  BitOr(Shl(xorshift, rot), Shr(xorshift, (-rot) % 32))

\* the output permutation of gen_u32, from the state before the step
Permute(old_state) ==
    LET xorshift == TruncU32(Shr(BitXor(Shr(old_state, 18), old_state), 27))
        rot == SmallInt(TruncU32(Shr(old_state, 59)))
    IN  BitOr(Shr(xorshift, rot), Shl(xorshift, (-rot) % 32))

gen_u32_clobbering_inc(r) ==
    [rng |-> [state |-> LcgStep(r.state, r.inc), inc |-> LcgStep(r.state, r.inc)],
     out |-> Permute(r.state)]

\* FastRng::gen_u32: the generator after the call and the word returned
FastRng_gen_u32(r) ==
    [rng |-> [state |-> LcgStep(r.state, r.inc), inc |-> r.inc],
     out |-> Permute(r.state)]

CopyFullChunksOnly(buf, pos, rand, len) ==
    IF len < 4 THEN buf
    ELSE SubSeq(buf, 1, pos - 1) \o SubSeq(rand, 1, len)
             \o SubSeq(buf, pos + len, Len(buf))

\* chunk.copy_from_slice(&rand[..len]) on the chunk of buf that starts at pos
CopyChunk(buf, pos, rand, len) ==
    SubSeq(buf, 1, pos - 1) \o SubSeq(rand, 1, len)
        \o SubSeq(buf, pos + len, Len(buf))

\* the loop of try_fill_bytes over buf.chunks_mut(4), from the chunk at pos
RECURSIVE FillChunks(_, _, _)
FillChunks(r, buf, pos) ==
    IF pos > Len(buf) THEN [rng |-> r, bytes |-> buf, res |-> "Ok"]
    ELSE LET g == FastRng_gen_u32(r)
             rand == ToNativeBytes(g.out)
             len == Min(4, Len(buf) - pos + 1)
         IN  FillChunks(g.rng, CopyChunk(buf, pos, rand, len), pos + 4)

FillOneWordMore(r, buf) ==
    LET f == FillChunks(r, buf, 1)
    IN  [f EXCEPT !.rng = FastRng_gen_u32(f.rng).rng]

\* <FastRng as Random>::try_fill_bytes
FastRng_try_fill_bytes(r, buf) == FillChunks(r, buf, 1)

-----------------------------------------------------------------------------
(* Two FastRng instances built from the same arguments.  Instance 1 is     *)
(* driven freely; instance 2 is driven by the same operations, later, and  *)
(* with buffers of the same lengths whose prior contents are its own.      *)

Max64 == <<255, 255, 255, 255, 255, 255, 255, 255>>

\* a seed that with selector 54 gives the first state 0x0123456789ABCDEF,
\* whose rotation count is 0
SeedRot0 == <<93, 196, 19, 206, 248, 44, 130, 3>>

\* seeds and sequence selectors: small ones, a seed whose sum with the
\* increment exceeds 2^64 - 1, a selector whose top bit the shift drops
SeedChoices == {Word(42, 8), Max64, SeedRot0}

SeqChoices == {Word(54, 8), <<1, 0, 0, 0, 0, 0, 0, 128>>}

\* what a caller's buffer may hold before the fill
BufChoices(n) == {Repeat(0, n), Repeat(170, n)}

Instances == {1, 2}

Seeded(i) == rng[i] # NoRng

\* the next operation of instance i may be d
MayApply(i, d) ==
    /\ status = "ok"
    /\ Seeded(i)
    /\ IF i = 1 THEN Len(ops) < MaxOps
       ELSE Len(outs[i]) < Len(ops) /\ ops[Len(outs[i]) + 1] = d

Record(i, d, r, out) ==
    /\ rng' = [rng EXCEPT ![i] = r]
    /\ outs' = [outs EXCEPT ![i] = Append(@, out)]
    /\ ops' = IF i = 1 THEN Append(ops, d) ELSE ops
    /\ last' = [who |-> i, op |-> d, pre |-> rng[i], out |-> out]

InitBuild ==
    /\ profile \in {"dev", "release"}
    /\ endian \in {"little", "big"}
    /\ status = "ok"

NoLocal == <<>>

NoFloat == [exponent |-> 0, significand |-> <<>>, shift |-> 0]

NoCall ==
    [rule |-> "none", pc |-> "done", ty |-> <<>>, start |-> 0, fills |-> <<>>,
     ret |-> <<>>]

Init ==
    /\ InitBuild
    /\ args \in SeedChoices \X SeqChoices
    /\ rng = [i \in Instances |-> NoRng]
    /\ ops = <<>>
    /\ outs = [i \in Instances |-> <<>>]
    /\ last = [who |-> 0]
    /\ off = 0
    /\ call = NoCall
    /\ fl = NoFloat
    /\ local = NoLocal

Seed(i) ==
    /\ status = "ok"
    /\ ~Seeded(i)
    /\ \E r \in {FastRng_seed(args[1], args[2])} :
           IF r.panic
           THEN /\ status' = "panic"
                /\ UNCHANGED <<rng, last>>
           ELSE /\ rng' = [rng EXCEPT ![i] = r.val]
                /\ last' = [who |-> i, op |-> [op |-> "seed"], pre |-> NoRng,
                            out |-> <<>>]
                /\ UNCHANGED status
    /\ UNCHANGED <<buildVars, args, ops, outs, typedVars, localVars>>

GenU32(i) ==
    LET d == [op |-> "gen_u32"]
    IN  /\ MayApply(i, d)
        /\ \E g \in {FastRng_gen_u32(rng[i])} : Record(i, d, g.rng, g.out)
        /\ UNCHANGED <<buildVars, status, args, typedVars, localVars>>

\* <FastRng as Random>::get_u32 overrides the provided method: self.gen_u32()
GetU32(i) ==
    LET d == [op |-> "get_u32"]
    IN  /\ MayApply(i, d)
        /\ \E g \in {FastRng_gen_u32(rng[i])} : Record(i, d, g.rng, g.out)
        /\ UNCHANGED <<buildVars, status, args, typedVars, localVars>>

TryFillBytes(i) ==
    \E n \in 0..MaxLen :
        \E buf \in BufChoices(n) :
            LET d == [op |-> "try_fill_bytes", n |-> n]
            IN  /\ MayApply(i, d)
                /\ \E f \in {FastRng_try_fill_bytes(rng[i], buf)} :
                       Record(i, d, f.rng, [res |-> f.res, buf |-> f.bytes])
                /\ UNCHANGED <<buildVars, status, args, typedVars, localVars>>

\* The provided get_u8, get_u16 and get_u64 on a FastRng: a zeroed buffer
\* filled by FastRng's try_fill_bytes.  That source never fails.
GetU8(i) ==
    LET d == [op |-> "get_u8"]
    IN  /\ MayApply(i, d)
        /\ \E f \in {FastRng_try_fill_bytes(rng[i], Repeat(0, Random_get_u8_len))} :
               Record(i, d, f.rng, Random_get_u8(f).val)
        /\ UNCHANGED <<buildVars, status, args, typedVars, localVars>>

GetU16(i) ==
    LET d == [op |-> "get_u16"]
    IN  /\ MayApply(i, d)
        /\ \E f \in {FastRng_try_fill_bytes(rng[i], Repeat(0, Random_get_u16_len))} :
               Record(i, d, f.rng, Random_get_u16(f).val)
        /\ UNCHANGED <<buildVars, status, args, typedVars, localVars>>

GetU64(i) ==
    LET d == [op |-> "get_u64"]
    IN  /\ MayApply(i, d)
        /\ \E f \in {FastRng_try_fill_bytes(rng[i], Repeat(0, Random_get_u64_len))} :
               Record(i, d, f.rng, Random_get_u64(f).val)
        /\ UNCHANGED <<buildVars, status, args, typedVars, localVars>>

\* lengths of the byte arrays generated from a FastRng
ArrayLens == {0, 4}

array_from_one_fill(r, N) ==
    LET f == FastRng_try_fill_bytes(r, Repeat(0, N))
    IN  [rng |-> f.rng, elems |-> [k \in 1..N |-> <<f.bytes[k]>>]]

\* <[u8; N] as GenerateRand>::generate on a FastRng: N times gen::<u8>(),
\* each a get_u8 over FastRng's try_fill_bytes
RECURSIVE FastRng_gen_u8_array(_, _)
FastRng_gen_u8_array(r, N) ==
    IF N = 0 THEN [rng |-> r, elems |-> <<>>]
    ELSE LET head == FastRng_gen_u8_array(r, N - 1)
             f == FastRng_try_fill_bytes(head.rng, Repeat(0, Random_get_u8_len))
         IN  [rng |-> f.rng, elems |-> PlaceNext(head.elems, Random_get_u8(f).val)]

GenU8Array(i) ==
    \E N \in ArrayLens :
        LET d == [op |-> "gen_u8_array", n |-> N]
        IN  /\ MayApply(i, d)
            /\ \E g \in {FastRng_gen_u8_array(rng[i], N)} :
                   Record(i, d, g.rng, g.elems)
            /\ UNCHANGED <<buildVars, status, args, typedVars, localVars>>

Next ==
    \E i \in Instances :
        \/ Seed(i)
        \/ GenU32(i)
        \/ GetU32(i)
        \/ TryFillBytes(i)
        \/ GetU8(i)
        \/ GetU16(i)
        \/ GetU64(i)
        \/ GenU8Array(i)

Spec == Init /\ [][Next]_vars

-----------------------------------------------------------------------------
(* The thread-local generator.  Each thread has its own THREAD_FAST_RNG    *)
(* slot, initialised lazily by FastRng::new() from the system time; a      *)
(* ThreadFastRng handle is a raw pointer to the slot of the thread that    *)
(* called local_rng(), and, being a raw pointer, cannot be sent to another *)
(* thread.  Here rng[t] is the slot of thread t, args[t] the clock reading *)
(* its initialiser saw, outs[t] the draws thread t made.                   *)

Threads == {1, 2}

\* handles one thread obtains
MaxHandles == 2
\* draws one thread makes
MaxLocalDraws == 2

\* readings of the system clock: after the epoch with a whole or a
\* fractional second, or before the epoch
ClockChoices ==
    {[before_epoch |-> FALSE, secs |-> Word(1700000000, 8), nanos |-> Word(n, 8)] :
         n \in {0, 999999999}}
        \cup {[before_epoch |-> TRUE, secs |-> Word(0, 8), nanos |-> Word(0, 8)]}

\* time_seed: duration_since(UNIX_EPOCH).unwrap(), then (secs, nanos)
time_seed(clock) ==
    IF clock.before_epoch THEN Panicked ELSE Ok(<<clock.secs, clock.nanos>>)

\* FastRng::new
FastRng_new(clock) ==
    LET t == time_seed(clock)
    IN  IF t.panic THEN Panicked ELSE FastRng_seed(t.val[1], t.val[2])

with_reseeding(slot, clock) == [val |-> FastRng_new(clock), ran |-> TRUE]

\* THREAD_FAST_RNG.with: the initialiser runs only while the slot is empty
thread_local_with(slot, clock) ==
    IF slot = NoRng THEN [val |-> FastRng_new(clock), ran |-> TRUE]
    ELSE [val |-> Ok(slot), ran |-> FALSE]

\* ThreadFastRng::from_ptr(r.as_ptr()) in thread t: the address of t's slot
from_ptr(t) == t

Running(t) == status = "ok" /\ local[t].alive

LocalInit ==
    /\ InitBuild
    /\ args = [t \in Threads |-> <<>>]
    /\ rng = [t \in Threads |-> NoRng]
    /\ ops = <<>>
    /\ outs = [t \in Threads |-> <<>>]
    /\ last = [who |-> 0]
    /\ off = 0
    /\ call = NoCall
    /\ fl = NoFloat
    /\ local = [t \in Threads |-> [handles |-> <<>>, inits |-> 0, alive |-> TRUE]]

\* thread t calls local_rng()
LocalRng(t) ==
    /\ Running(t)
    /\ Len(local[t].handles) < MaxHandles
    /\ \E clock \in ClockChoices :
           \E w \in {thread_local_with(rng[t], clock)} :
               IF w.val.panic
               THEN /\ local' = [local EXCEPT ![t].alive = FALSE]
                    /\ UNCHANGED <<rng, args>>
               ELSE /\ rng' = [rng EXCEPT ![t] = w.val.val]
                    /\ args' = IF w.ran THEN [args EXCEPT ![t] = clock] ELSE args
                    /\ local' = [local EXCEPT
                                    ![t].handles = Append(@, from_ptr(t)),
                                    ![t].inits = @ + (IF w.ran THEN 1 ELSE 0)]
    /\ UNCHANGED <<buildVars, status, ops, outs, last, typedVars>>

\* the draw d through handle h of thread t left the pointee as r and
\* returned out
LocalRecord(t, h, d, r, out) ==
    /\ rng' = [rng EXCEPT ![local[t].handles[h]] = r]
    /\ outs' = [outs EXCEPT ![t] = Append(@, [op |-> d, handle |-> h, out |-> out])]
    /\ UNCHANGED <<buildVars, status, args, ops, last, typedVars, localVars>>

\* thread t draws a u32 through one of its handles (DerefMut to the FastRng)
LocalGetU32(t) ==
    /\ Running(t)
    /\ Len(outs[t]) < MaxLocalDraws
    /\ \E h \in 1..Len(local[t].handles) :
           \E g \in {FastRng_gen_u32(rng[local[t].handles[h]])} :
               LocalRecord(t, h, "get_u32", g.rng, g.out)

\* thread t draws a u8 through one of its handles
LocalGetU8(t) ==
    /\ Running(t)
    /\ Len(outs[t]) < MaxLocalDraws
    /\ \E h \in 1..Len(local[t].handles) :
           \E f \in {FastRng_try_fill_bytes(rng[local[t].handles[h]],
                                            Repeat(0, Random_get_u8_len))} :
               LocalRecord(t, h, "get_u8", f.rng, Random_get_u8(f).val)

LocalNext ==
    \E t \in Threads :
        \/ LocalRng(t)
        \/ LocalGetU32(t)
        \/ LocalGetU8(t)

SpecLocal == LocalInit /\ [][LocalNext]_vars

-----------------------------------------------------------------------------
(* The typed-value layer over a scripted byte source: any implementation   *)
(* of try_fill_bytes, which fails or fills the buffer as it likes.  One    *)
(* call runs at a time; a loop takes one step per word or element drawn.   *)

RECURSIVE Counting(_, _)
Counting(from, n) ==
    IF n = 0 THEN <<>> ELSE <<from % 256>> \o Counting(from + 1, n - 1)

OneHot(n, pos, v) == Repeat(0, pos - 1) \o <<v>> \o Repeat(0, n - pos)

\* what a successful fill of n bytes may hold when `o` bytes went out before:
\* the doc example's counter, all zeros, all ones, or one byte set (a low
\* bit, a top bit, or the D8 of a surrogate) near either end
FillChoices(n, o) ==
    {Counting(o, n), Repeat(0, n), Repeat(255, n)}
        \cup {OneHot(n, p, v) : p \in {1, n} \cap (1..n), v \in {1, 128}}
        \cup {OneHot(n, p, 216) : p \in {2, n - 1} \cap (1..n)}

SourceOutcomes(n, o) ==
    {[res |-> "Err"]} \cup {[res |-> "Ok", bytes |-> b] : b \in FillChoices(n, o)}

\* the log entry of one request for n bytes
Logged(n, o) ==
    [n |-> n, res |-> o.res, bytes |-> IF o.res = "Ok" THEN o.bytes ELSE <<>>]

Delivered(o) == IF o.res = "Ok" THEN Len(o.bytes) ELSE 0

ElemTypes == {"u8", "u16"}

TupleTypes == {<<"u32">>, <<"u8", "u16">>, <<"u16", "u8", "u32">>}

TypedInit ==
    /\ InitBuild
    /\ args = <<>>
    /\ rng = <<>>
    /\ ops = <<>>
    /\ outs = <<>>
    /\ last = [who |-> 0]
    /\ off = 0
    /\ call = NoCall
    /\ fl = NoFloat
    /\ local = NoLocal
    /\ fl = NoFloat
    /\ local = NoLocal

CanCall == status = "ok" /\ call.pc = "done" /\ off < MaxOff

\* a call that made the one request o and came back with r (or panicked)
Finish(rule, n, o, r) ==
    /\ call' = [rule |-> rule, pc |-> IF r.panic THEN "panic" ELSE "done",
                ty |-> <<>>, start |-> off, fills |-> <<Logged(n, o)>>,
                ret |-> IF r.panic THEN <<>> ELSE r.val]
    /\ status' = IF r.panic THEN "panic" ELSE "ok"
    /\ off' = off + Delivered(o)
    /\ UNCHANGED <<buildVars, localVars, rngVars, fl>>

DefaultFillBytes ==
    /\ CanCall
    /\ \E n \in 0..MaxLen :
           \E o \in SourceOutcomes(n, off) :
               Finish("fill_bytes", n, o, Random_fill_bytes(o))

DefaultGetU8 ==
    /\ CanCall
    /\ \E o \in SourceOutcomes(Random_get_u8_len, off) :
           Finish("get_u8", Random_get_u8_len, o, Random_get_u8(o))

DefaultGetU16 ==
    /\ CanCall
    /\ \E o \in SourceOutcomes(Random_get_u16_len, off) :
           Finish("get_u16", Random_get_u16_len, o, Random_get_u16(o))

DefaultGetU32 ==
    /\ CanCall
    /\ \E o \in SourceOutcomes(Random_get_u32_len, off) :
           Finish("get_u32", Random_get_u32_len, o, Random_get_u32(o))

DefaultGetU64 ==
    /\ CanCall
    /\ \E o \in SourceOutcomes(Random_get_u64_len, off) :
           Finish("get_u64", Random_get_u64_len, o, Random_get_u64(o))

DefaultGetBool ==
    /\ CanCall
    /\ \E o \in SourceOutcomes(Random_get_u8_len, off) :
           Finish("get_bool", Random_get_u8_len, o, Random_get_bool(o))

\* one more request o by the running call, which goes on as pc with ret
Continue(rule, ty, start, fills, n, o, pc, ret) ==
    /\ call' = [rule |-> rule, pc |-> pc, ty |-> ty, start |-> start,
                fills |-> Append(fills, Logged(n, o)), ret |-> ret]
    /\ status' = IF pc = "panic" THEN "panic" ELSE "ok"
    /\ off' = off + Delivered(o)
    /\ UNCHANGED <<buildVars, localVars, rngVars, fl>>

GenCharGivingUp ==
    /\ \/ CanCall
       \/ status = "ok" /\ call.rule = "char" /\ call.pc = "run"
                        /\ Len(call.fills) < MaxDraws
    /\ LET fresh == call.pc = "done"
           start == IF fresh THEN off ELSE call.start
           fills == IF fresh THEN <<>> ELSE call.fills
       IN  \E o \in SourceOutcomes(Random_get_u32_len, off) :
               \E w \in {Random_get_u32(o)} :
                   IF w.panic \/ (~char_from_u32_is_some(w.val) /\ Len(fills) >= 1)
                   THEN Continue("char", <<>>, start, fills, Random_get_u32_len,
                                 o, "panic", <<>>)
                   ELSE IF char_from_u32_is_some(w.val)
                   THEN Continue("char", <<>>, start, fills, Random_get_u32_len,
                                 o, "done", w.val)
                   ELSE Continue("char", <<>>, start, fills, Random_get_u32_len,
                                 o, "run", <<>>)

\* <char as GenerateRand>::generate, one turn of its loop: the first turn
\* of a new call or the next turn of the running one
GenChar ==
    /\ \/ CanCall
       \/ status = "ok" /\ call.rule = "char" /\ call.pc = "run"
                        /\ Len(call.fills) < MaxDraws
    /\ LET fresh == call.pc = "done"
           start == IF fresh THEN off ELSE call.start
           fills == IF fresh THEN <<>> ELSE call.fills
       IN  \E o \in SourceOutcomes(Random_get_u32_len, off) :
               \E w \in {Random_get_u32(o)} :
                   IF w.panic
                   THEN Continue("char", <<>>, start, fills, Random_get_u32_len,
                                 o, "panic", <<>>)
                   ELSE IF char_from_u32_is_some(w.val)
                   THEN Continue("char", <<>>, start, fills, Random_get_u32_len,
                                 o, "done", w.val)
                   ELSE Continue("char", <<>>, start, fills, Random_get_u32_len,
                                 o, "run", <<>>)

\* entering <[T; N] as GenerateRand>::generate; the arm for N = 0 returns []
ArrayStart ==
    /\ CanCall
    /\ \E T \in ElemTypes :
           \E N \in 0..MaxN :
               call' = [rule |-> "array", pc |-> IF N = 0 THEN "done" ELSE "run",
                        ty |-> Repeat(T, N), start |-> off, fills |-> <<>>,
                        ret |-> <<>>]
    /\ UNCHANGED <<buildVars, localVars, rngVars, status, off, fl>>

\* entering <(A, B, ...) as GenerateRand>::generate
TupleStart ==
    /\ CanCall
    /\ \E ty \in TupleTypes :
           call' = [rule |-> "tuple", pc |-> "run", ty |-> ty, start |-> off,
                    fills |-> <<>>, ret |-> <<>>]
    /\ UNCHANGED <<buildVars, localVars, rngVars, status, off, fl>>

\* the next element expression of the running array or tuple: rand.gen::<T>()
NextElem(rule) ==
    /\ status = "ok"
    /\ call.rule = rule
    /\ call.pc = "run"
    /\ LET T == call.ty[Len(call.ret) + 1]
       IN  \E o \in SourceOutcomes(TypeLen(T), off) :
               \E v \in {Random_gen(T, o)} :
                   IF v.panic
                   THEN Continue(rule, call.ty, call.start, call.fills,
                                 TypeLen(T), o, "panic", <<>>)
                   ELSE \E elems \in {PlaceNext(call.ret, v.val)} :
                            Continue(rule, call.ty, call.start, call.fills,
                                     TypeLen(T), o,
                                     IF Len(elems) = Len(call.ty) THEN "done"
                                     ELSE "run",
                                     elems)

ArrayElem == NextElem("array")

TupleElem == NextElem("tuple")

TypedNext ==
    \/ DefaultFillBytes
    \/ DefaultGetU8
    \/ DefaultGetU16
    \/ DefaultGetU32
    \/ DefaultGetU64
    \/ DefaultGetBool
    \/ GenChar
    \/ ArrayStart
    \/ ArrayElem
    \/ TupleStart
    \/ TupleElem

SpecTyped == TypedInit /\ [][TypedNext]_vars

\* the loop of a running character generation goes on to its next turn:
\* nothing in it blocks or waits
SpecTypedFair == SpecTyped /\ WF_vars(GenChar)

-----------------------------------------------------------------------------
(* Float generation over the scripted byte source, one call, a step per    *)
(* word drawn.                                                             *)

\* all ones but for byte pos, which is v
OnesBut(n, pos, v) == Repeat(255, pos - 1) \o <<v>> \o Repeat(255, n - pos)

\* the words a float generation may be served: those of FillChoices from a
\* fresh source, and words just below all ones
FloatSourceOutcomes(n) ==
    SourceOutcomes(n, 0)
        \cup {[res |-> "Ok", bytes |-> OnesBut(n, p, 127)] : p \in {1, n}}

FloatTypes == {"f32", "f64"}

\* the running call after one more request o, with locals l
FloatContinue(ty, o, pc, l, ret) ==
    /\ call' = [rule |-> ty, pc |-> pc, ty |-> <<>>, start |-> 0,
                fills |-> Append(call.fills, Logged(WordLen(ty), o)),
                ret |-> ret]
    /\ fl' = l
    /\ status' = IF pc = "panic" THEN "panic" ELSE "ok"
    /\ off' = off + Delivered(o)
    /\ UNCHANGED <<buildVars, localVars, rngVars>>

\* the running call after a step that drew nothing
FloatMove(ty, pc, l, ret) ==
    /\ call' = [call EXCEPT !.pc = pc, !.ret = ret]
    /\ fl' = l
    /\ status' = IF pc = "panic" THEN "panic" ELSE "ok"
    /\ UNCHANGED <<buildVars, localVars, rngVars, off>>

\* entering generate: exponent = -W and the first word
FloatStart ==
    /\ status = "ok"
    /\ call = NoCall
    /\ \E ty \in FloatTypes :
           \E o \in FloatSourceOutcomes(WordLen(ty)) :
               \E w \in {FloatWord(ty, o)} :
                   IF w.panic
                   THEN FloatContinue(ty, o, "panic", NoFloat, <<>>)
                   ELSE FloatContinue(ty, o, "loop", FloatEnter(ty, w.val), <<>>)

\* one turn of the zero-retry loop
FloatZeroRetry ==
    /\ status = "ok"
    /\ call.pc = "loop"
    /\ IsZeroWord(fl.significand)
    /\ \E e \in {ZeroRetry(call.rule, fl.exponent)} :
           IF e.panic
           THEN FloatMove(call.rule, "panic", fl, <<>>)
           ELSE \E o \in FloatSourceOutcomes(WordLen(call.rule)) :
                    \E w \in {FloatWord(call.rule, o)} :
                        IF w.panic
                        THEN FloatContinue(call.rule, o, "panic", fl, <<>>)
                        ELSE FloatContinue(call.rule, o, "loop",
                                 [fl EXCEPT !.exponent = e.val,
                                            !.significand = w.val], <<>>)

\* the rest of generate once the significand is not zero, when there are
\* leading zeros: the refill word, the sticky bit, the conversion
FloatFinishShifted ==
    /\ status = "ok"
    /\ call.pc = "loop"
    /\ ~IsZeroWord(fl.significand)
    /\ LeadingZeros(fl.significand) # 0
    /\ \E o \in FloatSourceOutcomes(WordLen(call.rule)) :
           \E w \in {FloatWord(call.rule, o)} :
               IF w.panic
               THEN FloatContinue(call.rule, o, "panic", fl, <<>>)
               ELSE \E n \in {Normalize(fl, w.val)} :
                    \E l \in {[n EXCEPT !.significand = Sticky(n.significand)]} :
                    \E f \in {Scale(call.rule, l.significand, l.exponent)} :
                        IF f.panic
                        THEN FloatContinue(call.rule, o, "panic", l, <<>>)
                        ELSE FloatContinue(call.rule, o, "done", l, f.val)

\* the same with no leading zero: nothing more is drawn
FloatFinishUnshifted ==
    /\ status = "ok"
    /\ call.pc = "loop"
    /\ ~IsZeroWord(fl.significand)
    /\ LeadingZeros(fl.significand) = 0
    /\ \E n \in {Normalize(fl, <<>>)} :
       \E l \in {[n EXCEPT !.significand = Sticky(n.significand)]} :
       \E f \in {Scale(call.rule, l.significand, l.exponent)} :
           IF f.panic
           THEN FloatMove(call.rule, "panic", l, <<>>)
           ELSE FloatMove(call.rule, "done", l, f.val)

FloatNext ==
    \/ FloatStart
    \/ FloatZeroRetry
    \/ FloatFinishShifted
    \/ FloatFinishUnshifted

SpecFloat == TypedInit /\ [][FloatNext]_vars

-----------------------------------------------------------------------------
(* Claims about the typed-value layer, checked under SpecTyped.            *)

IntegerRules == {"get_u8", "get_u16", "get_u32", "get_u64"}

RuleLen(rule) ==
    CASE rule = "get_u8" -> 1
      [] rule = "get_u16" -> 2
      [] rule = "get_u32" -> 4
      [] rule = "get_u64" -> 8

\* a 32-bit word is a Unicode scalar value
IsScalarValue(w) ==
    /\ w[4] = 0
    /\ LET v == w[1] + 256 * w[2] + 65536 * w[3]
       IN  v <= 1114111 /\ (v < 55296 \/ v > 57343)

\* C3: get_bool draws exactly one byte and returns true if and only if the
\* top bit of that byte is set.
C3_BoolIsTopBit ==
    (call.rule = "get_bool" /\ call.fills[1].res = "Ok") =>
        /\ Len(call.fills) = 1
        /\ call.fills[1].n = 1
        /\ call.pc = "done"
        /\ call.ret = (call.fills[1].bytes[1] >= 128)

\* C4: a value generate::<char> returns is a Unicode scalar value, and it is
\* the word drawn last; every word drawn before it, and every word drawn by
\* a call still in its loop, is not a scalar value (it was discarded).
C4_CharIsScalarValue ==
    call.rule = "char" =>
        /\ call.pc = "done" =>
               /\ IsScalarValue(call.ret)
               /\ call.ret = FromNativeBytes(call.fills[Len(call.fills)].bytes)
        /\ \A k \in 1..Len(call.fills) :
               (call.fills[k].res = "Ok" /\ (k < Len(call.fills) \/ call.pc = "run"))
                   => ~IsScalarValue(FromNativeBytes(call.fills[k].bytes))

\* a character returned on the second draw, after a surrogate code point
C4_Witness ==
    /\ call.rule = "char"
    /\ call.pc = "done"
    /\ Len(call.fills) = 2
    /\ FromNativeBytes(call.fills[1].bytes) = <<0, 216, 0, 0>>
    /\ IsScalarValue(call.ret)

\* C5: an array or a tuple is generated by one call to the element rule per
\* position, in ascending position: after k calls the first k positions
\* hold the values of calls 1..k in that order, and the finished value has
\* as many elements as its type.
C5_CompositeOrder ==
    (call.rule \in {"array", "tuple"} /\ call.pc # "panic") =>
        /\ Len(call.ret) = Len(call.fills)
        /\ call.pc = "done" => Len(call.ret) = Len(call.ty)
        /\ \A i \in 1..Len(call.ret) :
               /\ call.fills[i].n = TypeLen(call.ty[i])
               /\ call.ret[i] = FromNativeBytes(call.fills[i].bytes)

\* a two-element array whose element calls got distinguishable bytes
C5_Witness ==
    /\ call.rule = "array"
    /\ call.pc = "done"
    /\ call.ty = <<"u16", "u16">>
    /\ call.fills[1].bytes = <<0, 1>>
    /\ call.fills[2].bytes = <<2, 3>>
    /\ call.ret[1] # call.ret[2]

\* C8: the provided get_u8 / get_u16 / get_u32 / get_u64 make one request of
\* 1 / 2 / 4 / 8 bytes and return the integer whose bytes, least significant
\* first, are the buffer's bytes in order; the source is that many bytes on.
C8_UnsignedFromBytes ==
    (call.rule \in IntegerRules /\ call.pc = "done") =>
        /\ Len(call.fills) = 1
        /\ call.fills[1].n = RuleLen(call.rule)
        /\ off = call.start + RuleLen(call.rule)
        /\ call.ret = call.fills[1].bytes

\* C9: fill_bytes panics exactly when try_fill_bytes fails; a typed rule in
\* whose call a fill failed has panicked at that fill and returned nothing,
\* and the thread is gone.
C9_FailureIsFatal ==
    /\ call.rule = "fill_bytes" =>
           (call.pc = "panic" <=> call.fills[1].res = "Err")
    /\ \A k \in 1..Len(call.fills) :
           call.fills[k].res = "Err" =>
               /\ call.pc = "panic"
               /\ status = "panic"
               /\ call.ret = <<>>
               /\ k = Len(call.fills)

\* a tuple whose second element's fill failed after the first succeeded
C9_Witness ==
    /\ call.rule = "tuple"
    /\ Len(call.fills) = 2
    /\ call.fills[1].res = "Ok"
    /\ call.fills[2].res = "Err"
    /\ call.pc = "panic"

\* the drawn words of a call that the source delivered
RECURSIVE OkFills(_, _)
OkFills(fills, k) ==
    IF k > Len(fills) THEN 0
    ELSE (IF fills[k].res = "Ok" THEN 1 ELSE 0) + OkFills(fills, k + 1)

\* what holds of a character generation at every turn of its loop
CharLoopInvariant ==
    call.rule = "char" =>
        LET n == Len(call.fills)
            valid(k) == /\ call.fills[k].res = "Ok"
                        /\ IsScalarValue(FromNativeBytes(call.fills[k].bytes))
        IN  /\ n > 0
            /\ \A k \in 1..n : call.fills[k].n = Random_get_u32_len
            /\ off = call.start + Random_get_u32_len * OkFills(call.fills, 1)
            /\ \A k \in 1..(n - 1) : call.fills[k].res = "Ok" /\ ~valid(k)
            /\ call.pc = "done" <=> valid(n)
            /\ call.pc = "done" => call.ret = FromNativeBytes(call.fills[n].bytes)
            /\ call.pc = "panic" <=> call.fills[n].res = "Err"
            /\ call.pc = "run" <=> (call.fills[n].res = "Ok" /\ ~valid(n))

\* C17: generate::<char> returns the first drawn word that is a scalar
\* value, having drawn exactly the words up to it, one get_u32 each; there
\* is no retry bound and no abort: while every word drawn was delivered and
\* invalid the call has neither returned nor panicked, and it goes on to
\* draw the next word.
C17_CharRejectionLoop ==
    /\ []CharLoopInvariant
    /\ \A n \in 1..(MaxDraws - 1) :
           (call.rule = "char" /\ call.pc = "run" /\ Len(call.fills) = n)
               ~> (call.rule = "char" /\ Len(call.fills) = n + 1)

\* a character returned on the third draw, after a surrogate code point and
\* a word above 0x10FFFF
C17_Witness ==
    /\ call.rule = "char"
    /\ call.pc = "done"
    /\ Len(call.fills) = 3
    /\ \E k \in 1..2 : FromNativeBytes(call.fills[k].bytes) = <<0, 216, 0, 0>>
    /\ \E k \in 1..2 : FromNativeBytes(call.fills[k].bytes) = <<255, 255, 255, 255>>
    /\ off = call.start + 12

-----------------------------------------------------------------------------
(* Claims about float generation, checked under SpecFloat.                 *)

Positive(f) == f.sign = 0 /\ f.kind \in {"finite", "inf"}

\* f < 1: negative, zero, or m * 2^e with m below 2^(-e)
BelowOne(f) ==
    \/ f.sign = 1
    \/ f.kind = "zero"
    \/ f.kind = "finite" /\ BitLen(f.m) + f.e <= 0

\* C2: every value generate returns for f32 or f64 satisfies 0 < f < 1.
C2_FloatInOpenUnitInterval ==
    (call.rule \in FloatTypes /\ call.pc = "done") =>
        Positive(call.ret) /\ BelowOne(call.ret)

\* the zero words a float generation drew before any other word
RECURSIVE ZeroDrawsFrom(_, _)
ZeroDrawsFrom(fills, k) ==
    IF k > Len(fills) THEN 0
    ELSE IF fills[k].res = "Ok" /\ IsZeroWord(fills[k].bytes)
    THEN 1 + ZeroDrawsFrom(fills, k + 1)
    ELSE 0

LeadingZeroDraws == ZeroDrawsFrom(call.fills, 1)

\* the call ended in the unreachable! of the zero-retry loop: it panicked
\* holding a zero significand that a successful draw delivered
ZeroRetryAborted ==
    /\ call.rule \in FloatTypes
    /\ call.pc = "panic"
    /\ Len(call.fills) > 0
    /\ call.fills[Len(call.fills)].res = "Ok"
    /\ Len(fl.significand) > 0
    /\ IsZeroWord(fl.significand)

\* the number of zero draws the message of the abort names
AbortMessageZeros(ty) == IF ty = "f32" THEN 5 ELSE 16

\* C13: the zero-retry loop aborts exactly when it would lower the exponent
\* below EMIN, and that is after 5 consecutive zero words for f32 and 16 for
\* f64: an aborted call drew that many zero words, and a call that drew
\* fewer has not aborted in the loop.
C13_ZeroRetryAbortBound ==
    (call.rule \in FloatTypes /\ ZeroRetryAborted) =>
        /\ fl.exponent - 8 * WordLen(call.rule) < EMin(call.rule)
        /\ LeadingZeroDraws = AbortMessageZeros(call.rule)

\* the call got as far as exp2f / exp2: it returned, or it panicked holding
\* a non-zero significand after a successful draw (the helper's assertion)
ScaleCalled ==
    /\ call.rule \in FloatTypes
    /\ Len(call.fills) > 0
    /\ call.fills[Len(call.fills)].res = "Ok"
    /\ \/ call.pc = "done"
       \/ /\ call.pc = "panic"
          /\ Len(fl.significand) > 0
          /\ ~IsZeroWord(fl.significand)

\* C14: whenever float generation calls exp2f the argument is above -127,
\* and above -1023 for exp2: the assertion of the helper holds, and the
\* scale it returns is the positive normal power of two 2^exp.
C14_ExponentInExp2Range ==
    ScaleCalled =>
        /\ fl.exponent > -Bias(call.rule)
        /\ call.pc = "done"
        /\ Exp2(fl.exponent, call.rule)
               = Ok([sign |-> 0, kind |-> "finite", m |-> <<1>>,
                     e |-> fl.exponent])

\* the k-th word a float generation drew, as the integer get_uN returned
DrawnWord(k) == FromNativeBytes(call.fills[k].bytes)

\* C15: with k zero words drawn first and shift the number of leading zero
\* bits of the first non-zero word, generation draws one more word exactly
\* when shift > 0 (k + 2 words in all, else k + 1); the exponent is
\* -W * (k + 1) - shift; and above the sticky bit the significand is the
\* first non-zero word shifted left by shift, with its low shift bits the
\* top shift bits of the extra word.
C15_NormalizationRefill ==
    ScaleCalled =>
        LET k == LeadingZeroDraws
            W == 8 * WordLen(call.rule)
            old == DrawnWord(k + 1)
            shift == LeadingZeros(old)
        IN  /\ fl.shift = shift
            /\ Len(call.fills) = k + 1 + (IF shift > 0 THEN 1 ELSE 0)
            /\ fl.exponent = -(W * (k + 1)) - shift
            /\ \A i \in 1..(W - 1) :
                   BitOf(fl.significand, i)
                       = IF i >= shift THEN BitOf(old, i - shift)
                         ELSE BitOf(DrawnWord(k + 2), W - shift + i)

\* an f32 returned after one zero word and the word 1: 31 leading zero
\* bits, refilled from a word of all ones
C15_Witness ==
    /\ call.rule = "f32"
    /\ call.pc = "done"
    /\ LeadingZeroDraws = 1
    /\ Len(call.fills) = 3
    /\ fl.shift = 31
    /\ fl.significand = <<255, 255, 255, 255>>

\* C16: where float generation converts to floating point, the significand
\* is odd and has its top bit set (2^(W-1) <= significand < 2^W) and the
\* exponent is at most -W, so significand * 2^exponent is above 0 and
\* below 1.
C16_PreConversionValue ==
    ScaleCalled =>
        LET W == 8 * WordLen(call.rule)
        IN  /\ Len(fl.significand) = WordLen(call.rule)
            /\ BitOf(fl.significand, 0) = 1
            /\ BitOf(fl.significand, W - 1) = 1
            /\ fl.exponent <= -W
            /\ BitLen(fl.significand) + fl.exponent <= 0

\* an f64 converted after one zero word and a word with only its top bit
\* set: the sticky bit makes the significand 2^63 + 1, the exponent is -128
C16_Witness ==
    /\ call.rule = "f64"
    /\ call.pc = "done"
    /\ LeadingZeroDraws = 1
    /\ Len(call.fills) = 2
    /\ fl.significand = <<1, 0, 0, 0, 0, 0, 0, 128>>
    /\ fl.exponent = -128

-----------------------------------------------------------------------------
(* Claims about FastRng, checked under Spec.                               *)

\* the increment the claims name, ((seq << 1) | 1) mod 2^64, limb by limb
IncOf(seq) ==
    [j \in 1..8 |->
        ((2 * seq[j]) % 256) + (IF j = 1 THEN 1 ELSE seq[j - 1] \div 128)]

\* the generator after k steps from r, and the k-th word (from 0) it produces
RECURSIVE StepN(_, _)
StepN(r, k) == IF k = 0 THEN r ELSE StepN(FastRng_gen_u32(r).rng, k - 1)

WordAt(r, k) == FastRng_gen_u32(StepN(r, k)).out

\* C1: two generators built by FastRng::seed from the same (seed, seq) and
\* driven by the same operations (fills of the same lengths, whatever the
\* buffers held before) return the same value at every step, and are in the
\* same (state, inc) whenever they have been driven equally far.
C1_Determinism ==
    /\ \A k \in 1..Len(outs[2]) : outs[2][k] = outs[1][k]
    /\ (Seeded(1) /\ Seeded(2) /\ Len(outs[1]) = Len(outs[2])) => rng[1] = rng[2]

\* both instances have gone through a word draw and a fill that ends in a
\* partial chunk
C1_Witness ==
    /\ Seeded(1) /\ Seeded(2)
    /\ Len(outs[2]) = 2 /\ Len(outs[1]) = 2
    /\ ops[1] = [op |-> "try_fill_bytes", n |-> 5]
    /\ ops[2] = [op |-> "gen_u32"]
    /\ last.who = 2

\* C6: FastRng::seed(seed, seq) never fails, whatever the 64-bit inputs, and
\* leaves inc = ((seq << 1) | 1) mod 2^64 and
\* state = ((seed + inc) * MULT + inc) mod 2^64.
C6_SeedTotalWrapping ==
    /\ status = "ok"
    /\ (last.who # 0 /\ last.op.op = "seed") =>
           rng[last.who] =
               [state |-> LcgStep(WrappingAdd(args[1], IncOf(args[2])),
                                  IncOf(args[2])),
                inc |-> IncOf(args[2])]

\* C7: in every state reachable from seed(seed, seq), inc is odd and is the
\* value ((seq << 1) | 1) mod 2^64 fixed at seeding.
C7_IncInvariant ==
    \A i \in Instances :
        Seeded(i) => /\ rng[i].inc[1] % 2 = 1
                     /\ rng[i].inc = IncOf(args[2])

\* a generator seeded with a selector whose top bit the shift drops, after a
\* word draw and a fill
C7_Witness ==
    /\ args[2][8] >= 128
    /\ Len(outs[1]) = 2
    /\ ops[1].op = "gen_u32"
    /\ ops[2].op = "try_fill_bytes"
    /\ rng[1].state # last.pre.state

\* C10: FastRng::try_fill_bytes on a buffer of n bytes returns Ok, leaves the
\* generator ceil(n / 4) steps further, and sets byte i of the buffer to byte
\* i mod 4 (in memory order) of the (i div 4)-th word gen_u32 produces during
\* the call; the buffer keeps its length.
C10_FillBytes ==
    (last.who # 0 /\ last.op.op = "try_fill_bytes") =>
        LET n == last.op.n
        IN  /\ last.out.res = "Ok"
            /\ Len(last.out.buf) = n
            /\ rng[last.who] = StepN(last.pre, (n + 3) \div 4)
            /\ \A i \in 0..(n - 1) :
                   last.out.buf[i + 1]
                       = ToNativeBytes(WordAt(last.pre, i \div 4))[(i % 4) + 1]

\* a fill of five bytes: one whole word and the first byte of a second
C10_Witness ==
    /\ last.who = 1
    /\ last.op = [op |-> "try_fill_bytes", n |-> 5]
    /\ rng[1] = StepN(last.pre, 2)
    /\ last.out.buf[5] = ToNativeBytes(WordAt(last.pre, 1))[1]

\* bit i (0..31) of x = (((s >> 18) XOR s) >> 27) mod 2^32
XorShiftedBit(s, i) ==
    (BitOf(s, i + 27) + (IF i + 45 < 64 THEN BitOf(s, i + 45) ELSE 0)) % 2

\* r = s >> 59
RotOf(s) == s[8] \div 8

\* C12: a gen_u32 call with pre-call state s sets state to
\* (s * MULT + inc) mod 2^64 and returns x rotated right by r = s >> 59,
\* where x = (((s >> 18) XOR s) >> 27) mod 2^32: bit i of the output is bit
\* (i + r) mod 32 of x, all of it computed from s.
C12_OutputPermutation ==
    (last.who # 0 /\ last.op.op \in {"gen_u32", "get_u32"}) =>
        LET s == last.pre.state
        IN  /\ rng[last.who].state
                   = WrappingAdd(WrappingMul(s, PCG_DEFAULT_MULTIPLIER_64),
                                 last.pre.inc)
            /\ \A i \in 0..31 :
                   BitOf(last.out, i) = XorShiftedBit(s, (i + RotOf(s)) % 32)

\* a gen_u32 call from the state 0x0123456789ABCDEF, whose rotation count
\* is 0: the output is x itself, 0x2468A5EB
C12_Witness ==
    /\ last.who = 1
    /\ last.op.op = "gen_u32"
    /\ RotOf(last.pre.state) = 0
    /\ last.out = <<235, 165, 104, 36>>

\* the first n bytes, in memory order, of the k-th word (from 0) that the
\* generator r produces
WordBytes(r, k, n) == SubSeq(ToNativeBytes(WordAt(r, k)), 1, n)

\* C18: every typed draw on a FastRng starts on a fresh word.  get_u8 and
\* get_u16 advance the state one step and are the first 1 or 2 bytes of
\* that step's word; get_u32 advances one step and is the word; get_u64
\* advances two steps and is the two words; [u8; N] advances N steps,
\* element k being the first byte of the k-th word, while filling a buffer
\* of 4 bytes advances one step.  Nothing of a word is left for a later
\* call.
C18_NoBytesCarried ==
    last.who # 0 =>
        LET pre == last.pre
            now == rng[last.who]
            op == last.op.op
        IN  /\ op = "get_u8" =>
                   now = StepN(pre, 1) /\ last.out = WordBytes(pre, 0, 1)
            /\ op = "get_u16" =>
                   /\ now = StepN(pre, 1)
                   /\ last.out = FromNativeBytes(WordBytes(pre, 0, 2))
            /\ op = "get_u32" =>
                   now = StepN(pre, 1) /\ last.out = WordAt(pre, 0)
            /\ op = "get_u64" =>
                   /\ now = StepN(pre, 2)
                   /\ last.out = FromNativeBytes(WordBytes(pre, 0, 4)
                                                     \o WordBytes(pre, 1, 4))
            /\ op = "gen_u8_array" =>
                   /\ now = StepN(pre, last.op.n)
                   /\ Len(last.out) = last.op.n
                   /\ \A k \in 1..last.op.n :
                          last.out[k] = WordBytes(pre, k - 1, 1)
            /\ (op = "try_fill_bytes" /\ last.op.n = 4) => now = StepN(pre, 1)

\* a [u8; 4] generated right after a fill of a 4-byte buffer: the fill took
\* one step, the array four
C18_Witness ==
    /\ last.who = 1
    /\ Len(ops) = 2
    /\ ops[1] = [op |-> "try_fill_bytes", n |-> 4]
    /\ ops[2] = [op |-> "gen_u8_array", n |-> 4]
    /\ rng[1] = StepN(last.pre, 4)

-----------------------------------------------------------------------------
(* Claims about the thread-local generator, checked under SpecLocal.       *)

\* the output the k-th draw of a thread must have when all its draws
\* continue one sequence from the generator r
ExpectedDraw(r, o, k) ==
    IF o.op = "get_u32" THEN WordAt(r, k - 1)
    ELSE <<ToNativeBytes(WordAt(r, k - 1))[1]>>

\* C11: within a thread every handle of local_rng() points to that thread's
\* own generator, which is initialised once, on the first call; the draws
\* made through any of the handles are, in order, the outputs of one
\* sequence from that first seeding, and the generator is as many steps on
\* as there were draws.  Handles of different threads point to different
\* generators.
C11_SeededOncePerThread ==
    \A t \in Threads :
        /\ \A h \in 1..Len(local[t].handles) : local[t].handles[h] = from_ptr(t)
        /\ \A u \in Threads \ {t} :
               \A h \in 1..Len(local[t].handles) :
                   \A g \in 1..Len(local[u].handles) :
                       local[t].handles[h] # local[u].handles[g]
        /\ local[t].inits <= 1
        /\ Len(local[t].handles) > 0 => local[t].inits = 1
        /\ rng[t] # NoRng =>
               LET first == FastRng_new(args[t]).val
               IN  /\ rng[t] = StepN(first, Len(outs[t]))
                   /\ \A k \in 1..Len(outs[t]) :
                          outs[t][k].out = ExpectedDraw(first, outs[t][k], k)

\* a thread that drew through its first handle, called local_rng() again at
\* a later clock reading, and drew through the second handle, while the
\* other thread holds a handle of its own
C11_Witness ==
    /\ Len(local[1].handles) = 2
    /\ Len(outs[1]) = 2
    /\ outs[1][1].handle = 1
    /\ outs[1][2].handle = 2
    /\ Len(local[2].handles) = 1
    /\ args[1] # args[2]

=============================================================================
